---- MODULE Spec2Model ----
(***************************************************************************)
(* Model of csync's tree synchronisation engine: src/src/engine.py         *)
(* (SyncEngine), src/src/pull.py (PullOperations), src/src/push.py         *)
(* (PushOperations) and src/src/fs.py (LocalStorage).                      *)
(*                                                                         *)
(* Strings whose characters matter (titles, directory names, page ids) are *)
(* sequences of one-character strings, so that sanitising, the "_<id>"     *)
(* suffix and the substring test of handle_renamed_page are computed.      *)
(* A path is a sequence of names.  Page bodies are opaque strings.         *)
(***************************************************************************)
EXTENDS Integers, Sequences, FiniteSets, TLC

VARIABLES
    remote,      \* the remote store: page id -> [title, version, body, parent, att]
    dirs,        \* local disk: the set of existing directories (paths)
    meta,        \* local disk: page directory -> contents of its metadata.json
    content,     \* local disk: page directory -> contents of its content.html
    files,       \* local disk: page directory -> file names in its attachments/
    id_map_file, \* local disk: contents of .csync/id_map.json (or NoFile)
    plan_file,   \* local disk: contents of .csync/sync_plan.json (or NoFile)
    id_map,      \* LocalStorage.id_map of the running pull
    plan,        \* the sync plan of the running pull (entries not yet applied)
    pc,          \* position of the running operation
    dry_run,     \* SyncEngine.dry_run of the running operation
    result,      \* outcome of the last operation: stats, what it applied, errors
    queue,       \* push: directories still to push, with the parent id to use
    calls,       \* push: remote calls received during the running/last push
    ops,         \* number of events from outside so far: remote changes, pushes
                 \* started, damage to local files
    since        \* what happened since the last completed pull

vars == <<remote, dirs, meta, content, files, id_map_file, plan_file, id_map,
          plan, pc, dry_run, result, queue, calls, ops, since>>

local == <<dirs, meta, content, files, id_map_file, plan_file>>

----------------------------------------------------------------------------
(* Bounds *)

MaxRemoteOps == 2

\* how many pushes are started
MaxPushes == 2

(* Names *)

S_children == <<"c", "h", "i", "l", "d", "r", "e", "n">>
S_attachments == <<"a", "t", "t", "a", "c", "h", "m", "e", "n", "t", "s">>
S_csync == <<".", "c", "s", "y", "n", "c">>

T_A == <<"A">>
T_B == <<"B">>
T_B_1 == <<"B", "_", "1">>
T_N == <<"N">>
T_M == <<"M">>
T_K == <<"K">>

Titles == {T_A, T_B, T_B_1, S_children}

Id1 == <<"1">>
Id2 == <<"2">>
Id3 == <<"3">>
Id4 == <<"4">>
Id5 == <<"5">>
Id6 == <<"6">>
Id7 == <<"7">>

\* the ids the remote gives to pages, in the order it gives them
IdOrder == <<Id1, Id2, Id3, Id4, Id5, Id6, Id7>>
Ids == {IdOrder[i] : i \in 1..Len(IdOrder)}

\* the pages the remote's own users can add
UserIds == {Id4}

NoId == <<"None">>
EmptyId == <<>>
None == << <<"None">> >>
NoVersion == 0

BaseDir == << <<"m">> >>

Bodies == {"", "x"}
Placeholder == "<p>todo</p>"

----------------------------------------------------------------------------
(* Paths *)

IsPrefix(p, q) == Len(p) <= Len(q) /\ SubSeq(q, 1, Len(p)) = p

Parent(p) == IF p = <<>> THEN <<>> ELSE SubSeq(p, 1, Len(p) - 1)

Name(p) == p[Len(p)]

Ancestors(p) == {SubSeq(p, 1, k) : k \in 1..Len(p)}

Contains(s, t) == \E k \in 0..(Len(s) - Len(t)) : SubSeq(s, k + 1, k + Len(t)) = t

PathContains(p, t) == \E i \in 1..Len(p) : Contains(p[i], t)

InvalidChars == {"<", ">", ":", "\"", "/", "\\", "|", "?", "*"}

MaxFilenameLen == 255

sanitize_filename(filename) ==
    LET replaced == [i \in 1..Len(filename) |->
                        IF filename[i] \in InvalidChars THEN "_" ELSE filename[i]]
    IN IF Len(replaced) > MaxFilenameLen
       THEN SubSeq(replaced, 1, MaxFilenameLen)
       ELSE replaced

get_page_dir(title) == Append(BaseDir, sanitize_filename(title))

get_child_dir(parent_dir, title) ==
    parent_dir \o <<S_children, sanitize_filename(title)>>

----------------------------------------------------------------------------
(* The remote store, as the engine reads it *)

EmptyMap == <<>>

\* the children of a page, in the order the remote lists them
AllChildren(page_id) ==
    SelectSeq(IdOrder, LAMBDA i : i \in DOMAIN remote /\ remote[i].parent = page_id)

\* the number of children the remote puts into the children.page expansion of
\* one response; the others are on further result pages
ChildrenPageSize == 2

\* root_page["children"]["page"]["results"]: the first result page
Children(page_id) ==
    SubSeq(AllChildren(page_id), 1,
           IF Len(AllChildren(page_id)) < ChildrenPageSize
           THEN Len(AllChildren(page_id)) ELSE ChildrenPageSize)

\* the page as fetched by _build_page_tree and stored in tree["metadata"]
Page(page_id) ==
    [id |-> page_id, title |-> remote[page_id].title,
     version |-> remote[page_id].version, body |-> remote[page_id].body,
     att |-> remote[page_id].att]

RECURSIVE TreeIds(_)
TreeIds(page_id) ==
    {page_id} \cup
    UNION {TreeIds(Children(page_id)[k]) : k \in 1..Len(Children(page_id))}

_build_page_tree(page_id) == TreeIds(page_id)

----------------------------------------------------------------------------
(* LocalStorage *)

ControlDir == Append(BaseDir, S_csync)

\* directories made by LocalStorage.__init__
StorageInitDirs == Ancestors(BaseDir) \cup {ControlDir}

\* LocalStorage.__init__ raises when id_map.json is not valid JSON
LocalStorageRaises == id_map_file.exists /\ id_map_file.corrupt

\* the id map loaded by LocalStorage.__init__
LocalStorageInit == IF id_map_file.exists THEN id_map_file.map ELSE EmptyMap

update_id_map(m, page_id, path) == (page_id :> path) @@ m

\* the directories whose metadata.json the scan of get_page_dir_by_id can
\* return for page_id; the order of glob is the file system's; a file that
\* cannot be parsed is passed over
ScanMatches(mt, page_id) ==
    {p \in DOMAIN mt : IsPrefix(BaseDir, p) /\ ~mt[p].corrupt /\ mt[p].id = page_id}

ScanResults(mt, page_id) ==
    IF ScanMatches(mt, page_id) = {} THEN {None} ELSE ScanMatches(mt, page_id)

\* an entry of the map is returned without a look at the disk
get_page_dir_by_id_trusting(ds, m, page_id, scanned) ==
    IF page_id \in DOMAIN m
    THEN [dir |-> m[page_id], map |-> m, wrote |-> FALSE]
    ELSE IF scanned # None
         THEN [dir |-> scanned, map |-> update_id_map(m, page_id, scanned), wrote |-> TRUE]
         ELSE [dir |-> None, map |-> m, wrote |-> FALSE]

\* the entry found by the scan is kept in memory and the file is left for later
get_page_dir_by_id_unsaved(ds, m, page_id, scanned) ==
    IF page_id \in DOMAIN m /\ m[page_id] \in ds
    THEN [dir |-> m[page_id], map |-> m, wrote |-> FALSE]
    ELSE IF scanned # None
         THEN [dir |-> scanned, map |-> update_id_map(m, page_id, scanned), wrote |-> FALSE]
         ELSE [dir |-> None, map |-> m, wrote |-> FALSE]

\* scanned is the result of the metadata scan, used only on a miss of the map
get_page_dir_by_id(ds, m, page_id, scanned) ==
    IF page_id \in DOMAIN m /\ m[page_id] \in ds
    THEN [dir |-> m[page_id], map |-> m, wrote |-> FALSE]
    ELSE IF scanned # None
         THEN [dir |-> scanned, map |-> update_id_map(m, page_id, scanned), wrote |-> TRUE]
         ELSE [dir |-> None, map |-> m, wrote |-> FALSE]

----------------------------------------------------------------------------
(* SyncEngine._create_sync_plan / _analyze_page *)

EmptyPlan ==
    [to_update |-> <<>>, to_create |-> <<>>, unchanged |-> <<>>, to_rename |-> <<>>,
     stats |-> [to_update |-> 0, to_create |-> 0, unchanged |-> 0, to_rename |-> 0]]

AddCreate(pl, page_id, parent_dir) ==
    [pl EXCEPT !.to_create = Append(@, [id |-> page_id, title |-> remote[page_id].title,
                                         parent_dir |-> parent_dir, metadata |-> Page(page_id)]),
               !.stats.to_create = @ + 1]

\* a renamed page is put into the update bucket too
AddRename_and_update(pl, page_id, local_dir) ==
    [pl EXCEPT !.to_rename = Append(@, [id |-> page_id, old_title |-> meta[local_dir].title,
                                         new_title |-> remote[page_id].title,
                                         local_dir |-> local_dir, metadata |-> Page(page_id)]),
               !.to_update = Append(@, [id |-> page_id, title |-> remote[page_id].title,
                                         local_dir |-> local_dir, metadata |-> Page(page_id)]),
               !.stats.to_rename = @ + 1]

AddRename(pl, page_id, local_dir) ==
    [pl EXCEPT !.to_rename = Append(@, [id |-> page_id, old_title |-> meta[local_dir].title,
                                         new_title |-> remote[page_id].title,
                                         local_dir |-> local_dir, metadata |-> Page(page_id)]),
               !.stats.to_rename = @ + 1]

\* a page to update is appended without being counted
AddUpdate_uncounted(pl, page_id, local_dir) ==
    [pl EXCEPT !.to_update = Append(@, [id |-> page_id, title |-> remote[page_id].title,
                                         local_dir |-> local_dir, metadata |-> Page(page_id)])]

AddUpdate(pl, page_id, local_dir) ==
    [pl EXCEPT !.to_update = Append(@, [id |-> page_id, title |-> remote[page_id].title,
                                         local_dir |-> local_dir, metadata |-> Page(page_id)]),
               !.stats.to_update = @ + 1]

AddUnchanged(pl, page_id) ==
    [pl EXCEPT !.unchanged = Append(@, [id |-> page_id, title |-> remote[page_id].title]),
               !.stats.unchanged = @ + 1]

\* get_page_metadata raises on a metadata.json that is not valid JSON.
\* st = [plan, map, file, raised]: the plan so far, storage.id_map, the
\* id_map.json it has written, and whether an exception left the analysis.
\* scan[i] is what the metadata scan finds for page i.
RECURSIVE _analyze_page(_, _, _, _), AnalyzeChildren(_, _, _, _)
_analyze_page(page_id, parent_dir, st, scan) ==
    IF st.raised THEN st ELSE
    LET r == get_page_dir_by_id(dirs \cup StorageInitDirs, st.map, page_id, scan[page_id])
        local_dir == r.dir
        st1 == [st EXCEPT !.map = r.map,
                          !.file = IF r.wrote THEN [exists |-> TRUE, corrupt |-> FALSE, map |-> r.map] ELSE @]
        title == remote[page_id].title
    IN IF local_dir = None
       THEN LET new_parent_dir == IF parent_dir # None
                                  THEN get_child_dir(parent_dir, title)
                                  ELSE get_page_dir(title)
            IN AnalyzeChildren(Children(page_id), new_parent_dir,
                               [st1 EXCEPT !.plan = AddCreate(@, page_id, parent_dir)], scan)
       ELSE IF local_dir \notin DOMAIN meta
       THEN AnalyzeChildren(Children(page_id), local_dir,
                            [st1 EXCEPT !.plan = AddCreate(@, page_id, parent_dir)], scan)
       ELSE IF meta[local_dir].corrupt
       THEN [st1 EXCEPT !.raised = TRUE]
       ELSE IF meta[local_dir].title # title
       THEN AnalyzeChildren(Children(page_id), local_dir,
                            [st1 EXCEPT !.plan = AddRename(@, page_id, local_dir)], scan)
       ELSE IF meta[local_dir].version = NoVersion
       THEN [st1 EXCEPT !.raised = TRUE]
       ELSE IF meta[local_dir].version < remote[page_id].version
       THEN AnalyzeChildren(Children(page_id), local_dir,
                            [st1 EXCEPT !.plan = AddUpdate(@, page_id, local_dir)], scan)
       ELSE AnalyzeChildren(Children(page_id), local_dir,
                            [st1 EXCEPT !.plan = AddUnchanged(@, page_id)], scan)

\* the children of a page found unchanged are not visited
AnalyzeChildren_unless_unchanged(children, parent_dir, st, scan) ==
    IF children = <<>> THEN st
    ELSE IF \E k \in 1..Len(st.plan.unchanged) :
                st.plan.unchanged[k].id = remote[Head(children)].parent
    THEN st
    ELSE AnalyzeChildren(Tail(children), parent_dir,
                         _analyze_page(Head(children), parent_dir, st, scan), scan)

AnalyzeChildren(children, parent_dir, st, scan) ==
    IF children = <<>> THEN st
    ELSE AnalyzeChildren(Tail(children), parent_dir,
                         _analyze_page(Head(children), parent_dir, st, scan), scan)

_create_sync_plan(page_id, m, scan) ==
    _analyze_page(page_id, None,
                  [plan |-> EmptyPlan, map |-> m, file |-> id_map_file, raised |-> FALSE], scan)

\* the choices of scan results for the pages of a tree
ScanChoices(ids) ==
    {f \in [ids -> UNION {ScanResults(meta, i) : i \in ids}] :
        \A i \in ids : f[i] \in ScanResults(meta, i)}

----------------------------------------------------------------------------
(* The local disk *)

\* the local state as a value: fs = [dirs, meta, content, files]
Disk == [dirs |-> dirs, meta |-> meta, content |-> content, files |-> files]

AttachmentsDir(page_dir) == Append(page_dir, S_attachments)

\* Path.mkdir(parents=True, exist_ok=True)
Mkdir(ds, p) == ds \cup Ancestors(p)

IsEmptyDir(fs, p) ==
    /\ \A q \in fs.dirs : IsPrefix(p, q) => q = p
    /\ p \notin DOMAIN fs.meta
    /\ p \notin DOMAIN fs.content
    /\ \A q \in DOMAIN fs.files : AttachmentsDir(q) = p => fs.files[q] = {}

Rebase(p, old, new) ==
    IF IsPrefix(old, p) THEN new \o SubSeq(p, Len(old) + 1, Len(p)) ELSE p

\* the key of f that Rebase takes to q
Unbase(f, q, old, new) == CHOOSE p \in DOMAIN f : Rebase(p, old, new) = q

MoveKeys(f, old, new) ==
    [q \in {Rebase(p, old, new) : p \in DOMAIN f} |-> f[Unbase(f, q, old, new)]]

\* Path.rename(new) of a directory whose target is absent or an empty directory
MoveDir(fs, old, new) ==
    [dirs |-> {Rebase(p, old, new) : p \in fs.dirs},
     meta |-> MoveKeys(fs.meta, old, new),
     content |-> MoveKeys(fs.content, old, new),
     files |-> MoveKeys(fs.files, old, new)]

\* os.rename raises when the target is a directory that is not empty
RenameRaises(fs, old, new) == new \in fs.dirs /\ ~IsEmptyDir(fs, new)

save_page_content(fs, page_dir, body) ==
    [fs EXCEPT !.dirs = Mkdir(@, page_dir),
               !.content = (page_dir :> body) @@ @]

save_page_metadata(fs, page_dir, md) ==
    [fs EXCEPT !.dirs = Mkdir(@, page_dir),
               !.meta = (page_dir :> md) @@ @]

\* PullOperations.pull_attachments: the directory is made, the remote
\* attachments are downloaded into it over what it holds
pull_attachments(fs, page_dir, att) ==
    [fs EXCEPT !.dirs = Mkdir(@, AttachmentsDir(page_dir)),
               !.files = (page_dir :> ((IF page_dir \in DOMAIN @ THEN @[page_dir] ELSE {}) \cup att)) @@ @]

\* the directory is named by the title as the remote has it
PageDirFor_raw(parent_dir, title) ==
    IF parent_dir # None THEN parent_dir \o <<S_children, title>> ELSE Append(BaseDir, title)

\* PullOperations.pull_page (dry_run unset; the plan is not run under dry_run)
PageDirFor(parent_dir, title) ==
    IF parent_dir # None THEN get_child_dir(parent_dir, title) ELSE get_page_dir(title)

pull_page(fs, page_id, parent_dir, metadata) ==
    LET page_dir == PageDirFor(parent_dir, metadata.title)
        md == [id |-> metadata.id, title |-> metadata.title, version |-> metadata.version,
               corrupt |-> FALSE]
    IN pull_attachments(
           save_page_metadata(save_page_content(fs, page_dir, metadata.body), page_dir, md),
           page_dir, metadata.att)

\* PullOperations.handle_renamed_page, the choice of the new directory:
\* wanted is new_dir before the collision test, target the one moved to
RenameTarget(current_dir, new_title, page_id, fs) ==
    LET is_child == PathContains(current_dir, S_children)
        parent_dir == IF is_child THEN Parent(Parent(current_dir)) ELSE Parent(current_dir)
        new_dir == IF is_child
                   THEN parent_dir \o <<S_children, sanitize_filename(new_title)>>
                   ELSE Append(parent_dir, sanitize_filename(new_title))
        collided == new_dir \in fs.dirs /\ new_dir # current_dir
    IN [wanted |-> new_dir, collided |-> collided,
        target |-> IF collided
                   THEN Append(parent_dir, sanitize_filename(new_title) \o <<"_">> \o page_id)
                   ELSE new_dir]

\* PullOperations.handle_renamed_page.  The result is the disk, the id map
\* (memory and file), whether it raised, and what it did: the directory it
\* found (from), the one it returns (dir), wanted and collided as above.
handle_renamed_page(fs, m, file, page_id, new_title, scanned) ==
    LET r == get_page_dir_by_id(fs.dirs, m, page_id, scanned)
        current_dir == r.dir
        file1 == IF r.wrote THEN [exists |-> TRUE, corrupt |-> FALSE, map |-> r.map] ELSE file
    IN IF current_dir = None
       THEN [fs |-> fs, map |-> r.map, file |-> file1, raised |-> FALSE,
             from |-> None, dir |-> get_page_dir(new_title),
             wanted |-> None, collided |-> FALSE]
       ELSE IF current_dir \notin DOMAIN fs.meta \/ fs.meta[current_dir].corrupt
       THEN [fs |-> fs, map |-> r.map, file |-> file1, raised |-> TRUE,
             from |-> current_dir, dir |-> None, wanted |-> None, collided |-> FALSE]
       ELSE
       LET fs1 == save_page_metadata(fs, current_dir,
                                     [fs.meta[current_dir] EXCEPT !.title = new_title])
           t == RenameTarget(current_dir, new_title, page_id, fs1)
           new_dir == t.target
           fs2 == [fs1 EXCEPT !.dirs = Mkdir(@, Parent(new_dir))]
           map2 == update_id_map(r.map, page_id, new_dir)
       IN IF current_dir # new_dir
          THEN IF RenameRaises(fs2, current_dir, new_dir)
               THEN [fs |-> fs2, map |-> r.map, file |-> file1, raised |-> TRUE,
                     from |-> current_dir, dir |-> None,
                     wanted |-> t.wanted, collided |-> t.collided]
               ELSE [fs |-> MoveDir(fs2, current_dir, new_dir),
                     map |-> map2, file |-> [exists |-> TRUE, corrupt |-> FALSE, map |-> map2],
                     raised |-> FALSE, from |-> current_dir, dir |-> new_dir,
                     wanted |-> t.wanted, collided |-> t.collided]
          ELSE [fs |-> fs1, map |-> map2, file |-> [exists |-> TRUE, corrupt |-> FALSE, map |-> map2],
                raised |-> FALSE, from |-> current_dir, dir |-> new_dir,
                wanted |-> t.wanted, collided |-> t.collided]

----------------------------------------------------------------------------
(* State *)

NoBuckets == [to_update |-> <<>>, to_create |-> <<>>, unchanged |-> <<>>, to_rename |-> <<>>]

NoResult ==
    [op |-> "none", source |-> NoId, raised |-> FALSE, stats |-> EmptyPlan.stats,
     buckets |-> NoBuckets, repeat |-> FALSE, applied |-> <<>>, recurse |-> TRUE]

NoSince == [pulled |-> FALSE, source |-> NoId]

BucketIds(pl) ==
    [to_update |-> [i \in 1..Len(pl.to_update) |-> pl.to_update[i].id],
     to_create |-> [i \in 1..Len(pl.to_create) |-> pl.to_create[i].id],
     unchanged |-> [i \in 1..Len(pl.unchanged) |-> pl.unchanged[i].id],
     to_rename |-> [i \in 1..Len(pl.to_rename) |-> pl.to_rename[i].id]]

InitRemote ==
    (Id1 :> [title |-> T_A, version |-> 1, body |-> "x", parent |-> NoId, att |-> {}]) @@
    (Id2 :> [title |-> T_B, version |-> 1, body |-> "", parent |-> Id1, att |-> {"f"}]) @@
    (Id3 :> [title |-> T_B_1, version |-> 1, body |-> "x", parent |-> Id1, att |-> {}])

Init ==
    /\ remote = InitRemote
    /\ dirs = {}
    /\ meta = <<>>
    /\ content = <<>>
    /\ files = <<>>
    /\ id_map_file = [exists |-> FALSE, corrupt |-> FALSE, map |-> EmptyMap]
    /\ plan_file = [exists |-> FALSE, plan |-> EmptyPlan]
    /\ id_map = EmptyMap
    /\ plan = EmptyPlan
    /\ pc = "idle"
    /\ dry_run = FALSE
    /\ result = NoResult
    /\ queue = <<>>
    /\ calls = <<>>
    /\ ops = 0
    /\ since = NoSince

----------------------------------------------------------------------------
(* The remote side changes (its users edit, rename and add pages) *)

UsedTitles == {remote[i].title : i \in DOMAIN remote}

RemoteChange(r) ==
    /\ pc = "idle"
    /\ ops < MaxRemoteOps
    /\ remote' = r
    /\ ops' = ops + 1
    /\ since' = NoSince
    /\ UNCHANGED <<dirs, meta, content, files, id_map_file, plan_file, id_map, plan,
                   dry_run, result, queue, calls>>
    /\ pc' = pc

RemoteRename ==
    \E i \in DOMAIN remote, t \in Titles \ UsedTitles :
        RemoteChange([remote EXCEPT ![i].title = t, ![i].version = @ + 1])

RemoteEdit ==
    \E i \in DOMAIN remote : \E b \in Bodies \ {remote[i].body} :
        RemoteChange([remote EXCEPT ![i].body = b, ![i].version = @ + 1])

\* an attachment is removed from a page (the page's version stays)
RemoteDetach ==
    \E i \in DOMAIN remote : \E f \in remote[i].att :
        RemoteChange([remote EXCEPT ![i].att = @ \ {f}])

FreshId == IdOrder[CHOOSE k \in 1..Len(IdOrder) :
                       /\ IdOrder[k] \notin DOMAIN remote
                       /\ \A j \in 1..(k - 1) : IdOrder[j] \in DOMAIN remote]

RemoteCreate ==
    /\ DOMAIN remote # Ids
    /\ FreshId \in UserIds
    /\ \E p \in DOMAIN remote, t \in Titles \ UsedTitles :
        RemoteChange((FreshId :> [title |-> t, version |-> 1, body |-> "x",
                                  parent |-> p, att |-> {}]) @@ remote)

----------------------------------------------------------------------------
(* SyncEngine.pull *)

\* pull up to the start of _execute_sync_plan: LocalStorage(destination),
\* the tree, the plan, the saved plan file.  recurse is SyncEngine.recurse,
\* which pull and the functions it calls never read.
StartPull(source, dry, recurse) ==
    /\ pc = "idle"
    /\ ~LocalStorageRaises
    /\ \E scan \in ScanChoices(_build_page_tree(source)) :
        LET st == _create_sync_plan(source, LocalStorageInit, scan)
            repeat == since.pulled /\ since.source = source /\ ~dry
        IN /\ dirs' = dirs \cup StorageInitDirs
           /\ id_map' = st.map
           /\ id_map_file' = st.file
           /\ dry_run' = dry
           /\ IF st.raised
              THEN /\ UNCHANGED plan_file
                   /\ plan' = EmptyPlan
                   /\ pc' = "idle"
                   /\ result' = [NoResult EXCEPT !.op = "pull", !.source = source,
                                                 !.raised = TRUE, !.recurse = recurse]
                   /\ since' = NoSince
              ELSE /\ plan_file' = [exists |-> TRUE, plan |-> st.plan]
                   /\ plan' = IF dry THEN EmptyPlan ELSE st.plan
                   /\ pc' = IF dry THEN "idle" ELSE "pull"
                   /\ result' = [op |-> "pull", source |-> source, raised |-> FALSE,
                                 stats |-> st.plan.stats, buckets |-> BucketIds(st.plan),
                                 repeat |-> repeat,
                                 applied |-> <<>>, recurse |-> recurse]
                   /\ since' = IF dry THEN since ELSE NoSince
    /\ UNCHANGED <<remote, meta, content, files, queue, calls, ops>>

\* pull when LocalStorage(destination) raises: the directories are made, then
\* json.load fails on id_map.json
FailPull(source, dry) ==
    /\ pc = "idle"
    /\ LocalStorageRaises
    /\ dirs' = dirs \cup StorageInitDirs
    /\ dry_run' = dry
    /\ plan' = EmptyPlan
    /\ result' = [NoResult EXCEPT !.op = "pull", !.source = source, !.raised = TRUE]
    /\ since' = NoSince
    /\ UNCHANGED <<remote, meta, content, files, id_map_file, plan_file, id_map, pc,
                   queue, calls, ops>>

PullSources == {Id1}

Pull == \E source \in PullSources \cap DOMAIN remote : StartPull(source, FALSE, TRUE)

\* csync pull --no-recurse
PullNoRecurse == \E source \in PullSources \cap DOMAIN remote : StartPull(source, FALSE, FALSE)

PullRaises == \E source \in PullSources \cap DOMAIN remote : FailPull(source, FALSE)

\* a dry run returns before the tree is analysed, with empty statistics
DryPull_unplanned ==
    /\ pc = "idle"
    /\ ~LocalStorageRaises
    /\ \E source \in PullSources \cap DOMAIN remote :
          result' = [NoResult EXCEPT !.op = "pull", !.source = source]
    /\ dirs' = dirs \cup StorageInitDirs
    /\ dry_run' = TRUE
    /\ plan' = EmptyPlan
    /\ id_map' = LocalStorageInit
    /\ UNCHANGED <<remote, meta, content, files, id_map_file, plan_file, pc, queue, calls,
                   ops, since>>

DryPull == \E source \in PullSources \cap DOMAIN remote : StartPull(source, TRUE, TRUE)

\* one entry of result.applied: a call made by _execute_sync_plan
Applied(op, page_id, title, bound, dir, wanted, collided, raised) ==
    [op |-> op, id |-> page_id, title |-> title, bound |-> bound, dir |-> dir,
     wanted |-> wanted, collided |-> collided, raised |-> raised]

\* _execute_sync_plan, first loop: one call of handle_renamed_page
ExecRename ==
    /\ pc = "pull"
    /\ plan.to_rename # <<>>
    /\ LET item == Head(plan.to_rename) IN
       \E scanned \in ScanResults(meta, item.id) :
        LET h == handle_renamed_page(Disk, id_map, id_map_file, item.id, item.new_title, scanned)
        IN /\ dirs' = h.fs.dirs
           /\ meta' = h.fs.meta
           /\ content' = h.fs.content
           /\ files' = h.fs.files
           /\ id_map' = h.map
           /\ id_map_file' = h.file
           /\ plan' = IF h.raised THEN EmptyPlan ELSE [plan EXCEPT !.to_rename = Tail(@)]
           /\ pc' = IF h.raised THEN "idle" ELSE pc
           /\ result' = [result EXCEPT
                            !.raised = h.raised,
                            !.applied = Append(@, Applied("rename", item.id, item.new_title,
                                                          h.from, h.dir, h.wanted,
                                                          h.collided, h.raised))]
    /\ UNCHANGED <<remote, plan_file, dry_run, queue, calls, ops, since>>

ApplyPullPage(kind, item, bound, parent_dir) ==
    LET fs == pull_page(Disk, item.id, parent_dir, item.metadata)
    IN /\ dirs' = fs.dirs
       /\ meta' = fs.meta
       /\ content' = fs.content
       /\ files' = fs.files
       /\ result' = [result EXCEPT !.applied =
                        Append(@, Applied(kind, item.id, item.title, bound,
                                          PageDirFor(parent_dir, item.metadata.title),
                                          None, FALSE, FALSE))]
       /\ pc' = pc
       /\ UNCHANGED <<remote, id_map, id_map_file, plan_file, dry_run, queue, calls, ops, since>>

\* a create is applied while renames are still waiting
ExecCreate_early ==
    /\ pc = "pull"
    /\ plan.to_create # <<>>
    /\ plan' = [plan EXCEPT !.to_create = Tail(@)]
    /\ ApplyPullPage("create", Head(plan.to_create), None, Head(plan.to_create).parent_dir)

\* _execute_sync_plan, second loop: one call of pull_page for a create
ExecCreate ==
    /\ pc = "pull"
    /\ plan.to_rename = <<>>
    /\ plan.to_create # <<>>
    /\ plan' = [plan EXCEPT !.to_create = Tail(@)]
    /\ ApplyPullPage("create", Head(plan.to_create), None, Head(plan.to_create).parent_dir)

\* _execute_sync_plan, third loop: one call of pull_page for an update
ExecUpdate ==
    /\ pc = "pull"
    /\ plan.to_rename = <<>>
    /\ plan.to_create = <<>>
    /\ plan.to_update # <<>>
    /\ plan' = [plan EXCEPT !.to_update = Tail(@)]
    /\ ApplyPullPage("update", Head(plan.to_update), Head(plan.to_update).local_dir,
                     Parent(Head(plan.to_update).local_dir))

\* pull_page where download_attachments_from_page raises after it has written
\* the files got: pull_attachments logs the exception and returns
DownloadFails(kind, item, bound, parent_dir) ==
    \E got \in SUBSET item.metadata.att :
        ApplyPullPage(kind, [item EXCEPT !.metadata.att = got], bound, parent_dir)

\* the exception of the download leaves pull_page and ends the pull
ExecCreateDownloadFails_raises ==
    /\ pc = "pull"
    /\ plan.to_rename = <<>>
    /\ plan.to_create # <<>>
    /\ plan' = EmptyPlan
    /\ pc' = "idle"
    /\ LET item == Head(plan.to_create)
           page_dir == PageDirFor(item.parent_dir, item.metadata.title)
           fs == save_page_metadata(
                     save_page_content(Disk, page_dir, item.metadata.body), page_dir,
                     [id |-> item.id, title |-> item.metadata.title,
                      version |-> item.metadata.version, corrupt |-> FALSE])
       IN /\ dirs' = Mkdir(fs.dirs, AttachmentsDir(page_dir))
          /\ meta' = fs.meta
          /\ content' = fs.content
          /\ result' = [result EXCEPT
                           !.raised = TRUE,
                           !.applied = Append(@, Applied("create", item.id, item.title, None,
                                                         page_dir, None, FALSE, TRUE))]
    /\ UNCHANGED <<remote, files, id_map, id_map_file, plan_file, dry_run, queue, calls,
                   ops, since>>

\* _execute_sync_plan, second loop: a pull_page whose download of the
\* attachments fails
ExecCreateDownloadFails ==
    /\ pc = "pull"
    /\ plan.to_rename = <<>>
    /\ plan.to_create # <<>>
    /\ plan' = [plan EXCEPT !.to_create = Tail(@)]
    /\ DownloadFails("create", Head(plan.to_create), None, Head(plan.to_create).parent_dir)

\* _execute_sync_plan, third loop: a pull_page whose download of the
\* attachments fails
ExecUpdateDownloadFails ==
    /\ pc = "pull"
    /\ plan.to_rename = <<>>
    /\ plan.to_create = <<>>
    /\ plan.to_update # <<>>
    /\ plan' = [plan EXCEPT !.to_update = Tail(@)]
    /\ DownloadFails("update", Head(plan.to_update), Head(plan.to_update).local_dir,
                     Parent(Head(plan.to_update).local_dir))

\* pull returns the statistics
PullDone ==
    /\ pc = "pull"
    /\ plan.to_rename = <<>>
    /\ plan.to_create = <<>>
    /\ plan.to_update = <<>>
    /\ pc' = "idle"
    /\ plan' = EmptyPlan
    /\ since' = [pulled |-> TRUE, source |-> result.source]
    /\ UNCHANGED <<remote, dirs, meta, content, files, id_map_file, plan_file, id_map,
                   dry_run, result, queue, calls, ops>>

\* damage to the files of the mirror, made from outside: id_map.json is
\* overwritten with text that is not JSON
CorruptIdMap ==
    /\ pc = "idle"
    /\ ops < MaxRemoteOps
    /\ id_map_file.exists
    /\ ~id_map_file.corrupt
    /\ id_map_file' = [id_map_file EXCEPT !.corrupt = TRUE]
    /\ ops' = ops + 1
    /\ UNCHANGED <<remote, dirs, meta, content, files, plan_file, id_map, plan, pc,
                   dry_run, result, queue, calls, since>>

\* a metadata.json is deleted
DeleteMetadata ==
    /\ pc = "idle"
    /\ ops < MaxRemoteOps
    /\ \E p \in DOMAIN meta : meta' = [q \in (DOMAIN meta) \ {p} |-> meta[q]]
    /\ ops' = ops + 1
    /\ UNCHANGED <<remote, dirs, content, files, id_map_file, plan_file, id_map, plan, pc,
                   dry_run, result, queue, calls, since>>

\* a metadata.json is overwritten with text that is not JSON
CorruptMetadata ==
    /\ pc = "idle"
    /\ ops < MaxRemoteOps
    /\ \E p \in DOMAIN meta :
        /\ ~meta[p].corrupt
        /\ meta' = [meta EXCEPT ![p] = [id |-> NoId, title |-> EmptyId,
                                        version |-> NoVersion, corrupt |-> TRUE]]
    /\ ops' = ops + 1
    /\ UNCHANGED <<remote, dirs, content, files, id_map_file, plan_file, id_map, plan, pc,
                   dry_run, result, queue, calls, since>>

\* the user deletes .csync/id_map.json
DeleteIdMap ==
    /\ pc = "idle"
    /\ id_map_file.exists
    /\ id_map_file' = [exists |-> FALSE, corrupt |-> FALSE, map |-> EmptyMap]
    /\ UNCHANGED <<remote, dirs, meta, content, files, plan_file, id_map, plan, pc,
                   dry_run, result, queue, calls, ops, since>>

Next ==
    \/ RemoteRename
    \/ RemoteEdit
    \/ RemoteCreate
    \/ Pull
    \/ ExecRename
    \/ ExecCreate
    \/ ExecUpdate
    \/ PullDone

Spec == Init /\ [][Next]_vars

\* pulls of any page of the remote tree into the same destination
PullAny == \E source \in DOMAIN remote : StartPull(source, FALSE, TRUE)

NextRoots ==
    \/ RemoteRename
    \/ PullAny
    \/ ExecRename
    \/ ExecCreate
    \/ ExecUpdate
    \/ PullDone

RootsSpec == Init /\ [][NextRoots]_vars

\* the same with dry-run pulls
NextDry == Next \/ DryPull

DrySpec == Init /\ [][NextDry]_vars

\* a page that has a parent gets a new title
RemoteRenameChild ==
    \E i \in DOMAIN remote, t \in Titles \ UsedTitles :
        /\ remote[i].parent # NoId
        /\ RemoteChange([remote EXCEPT ![i].title = t, ![i].version = @ + 1])

\* pulls of any page into the same destination, child pages renamed
NextSubtrees ==
    \/ RemoteRenameChild
    \/ PullAny
    \/ ExecRename
    \/ ExecCreate
    \/ ExecUpdate
    \/ PullDone

SubtreesSpec == Init /\ [][NextSubtrees]_vars

\* the same with pulls that have recurse disabled
NextRecurse == Next \/ PullNoRecurse

RecurseSpec == Init /\ [][NextRecurse]_vars

\* the same with attachments removed on the remote
NextAttach == Next \/ RemoteDetach

AttachSpec == Init /\ [][NextAttach]_vars

\* the same with damage to the files of the mirror
NextDamage == Next \/ PullRaises \/ CorruptIdMap \/ DeleteMetadata \/ CorruptMetadata

DamageSpec == Init /\ [][NextDamage]_vars

\* the same with the loss of the index file
\* pulls between edits of the remote pages, where the download of attachments
\* can fail
NextFlaky ==
    \/ RemoteEdit
    \/ Pull
    \/ ExecCreate
    \/ ExecUpdate
    \/ PullDone
    \/ ExecCreateDownloadFails
    \/ ExecUpdateDownloadFails

FlakySpec == Init /\ [][NextFlaky]_vars

\* pulls and dry runs between renames of child pages and edits
NextDryStats ==
    \/ RemoteRenameChild
    \/ RemoteEdit
    \/ Pull
    \/ DryPull
    \/ ExecRename
    \/ ExecCreate
    \/ ExecUpdate
    \/ PullDone

DryStatsSpec == Init /\ [][NextDryStats]_vars

\* titles with characters that file names cannot have
OddTitles == {<<"B", "?", "1">>, <<"A", "/", "B">>}

\* a page gets a title that is not a file name
RemoteRenameOdd ==
    \E i \in DOMAIN remote, t \in OddTitles \ UsedTitles :
        RemoteChange([remote EXCEPT ![i].title = t, ![i].version = @ + 1])

\* pulls between renames to such titles
NextOddTitles ==
    \/ RemoteRenameOdd
    \/ Pull
    \/ ExecRename
    \/ ExecCreate
    \/ PullDone

OddTitlesSpec == Init /\ [][NextOddTitles]_vars

NextIndex == Next \/ DeleteIdMap

IndexSpec == Init /\ [][NextIndex]_vars

----------------------------------------------------------------------------
(* SyncEngine.push / PushOperations *)

\* the remote's update_or_create(parent_id, title, body), as push_page calls
\* it: the page of that title is updated (left alone when title and body are
\* as sent), or a page is created under parent_id.  ok = FALSE: the call raises.
TitleIds(title) == {i \in DOMAIN remote : remote[i].title = title}

update_or_create(parent_id, title, body, ok) ==
    IF ~ok \/ parent_id \notin DOMAIN remote
    THEN [remote |-> remote, raised |-> TRUE, id |-> EmptyId, created |-> FALSE]
    ELSE IF TitleIds(title) # {}
    THEN LET i == CHOOSE x \in TitleIds(title) : TRUE IN
         IF remote[i].body = body
         THEN [remote |-> remote, raised |-> FALSE, id |-> i, created |-> FALSE]
         ELSE IF i = parent_id
         THEN [remote |-> remote, raised |-> TRUE, id |-> EmptyId, created |-> FALSE]
         ELSE [remote |-> [remote EXCEPT ![i].body = body, ![i].version = @ + 1,
                                         ![i].parent = parent_id],
               raised |-> FALSE, id |-> i, created |-> FALSE]
    ELSE IF DOMAIN remote = Ids
    THEN [remote |-> remote, raised |-> TRUE, id |-> EmptyId, created |-> FALSE]
    ELSE [remote |-> (FreshId :> [title |-> title, version |-> 1, body |-> body,
                                  parent |-> parent_id, att |-> {}]) @@ remote,
          raised |-> FALSE, id |-> FreshId, created |-> TRUE]

\* the content file is sent as it is read, nothing when it is absent
PushBody_raw(local_dir) ==
    IF local_dir \in DOMAIN content THEN content[local_dir] ELSE ""

\* LocalStorage.get_page_content(local_dir) or "<p>todo</p>"
PushBody(local_dir) ==
    IF local_dir \in DOMAIN content /\ content[local_dir] # ""
    THEN content[local_dir]
    ELSE Placeholder

\* PushOperations.push_attachments: the attach_content calls it sends
AttachCalls(page_id, local_dir, dry) ==
    IF AttachmentsDir(local_dir) \notin dirs \/ local_dir \notin DOMAIN files \/ dry
    THEN {}
    ELSE files[local_dir]

\* PushOperations.push_page: the outcome of the remote call and the calls sent.
\* uploaded: the files attach_content took before one upload raised (all of
\* them when none did); that exception is not caught and leaves push_page.
push_page(local_dir, parent_id, dry, ok, uploaded) ==
    LET u == update_or_create(parent_id, meta[local_dir].title, PushBody(local_dir), ok)
        sent == IF u.raised THEN {} ELSE AttachCalls(u.id, local_dir, dry)
        done == uploaded \cap sent
    IN [remote |-> IF u.raised THEN u.remote
                   ELSE [u.remote EXCEPT ![u.id].att = @ \cup done],
        id |-> u.id,
        raised |-> done # sent,
        calls |-> <<[call |-> "update_or_create", dir |-> local_dir, parent_id |-> parent_id,
                     title |-> meta[local_dir].title, body |-> PushBody(local_dir),
                     returned |-> u.id, created |-> u.created, attached |-> done]>>]

\* push_page_tree: the directories under local_dir/children
ChildDirs(local_dir) ==
    {d \in dirs : Len(d) = Len(local_dir) + 2 /\ IsPrefix(Append(local_dir, S_children), d)}

\* every child is pushed under the parent id its own parent was pushed under
ChildParentId_flat(page_id, parent_id) == parent_id

\* push_page_tree: the parent id handed to the push of a child
ChildParentId(page_id, parent_id) == page_id

\* the orders in which iterdir can list a set of directories
Orders(ds) ==
    {q \in [1..Cardinality(ds) -> ds] : \A i, j \in 1..Cardinality(ds) : q[i] = q[j] => i = j}

\* SyncEngine.push up to the first push_page: LocalStorage(source) is made
StartPush(source, parent_id, dry) ==
    /\ pc = "idle"
    /\ ops < MaxPushes
    /\ ops' = ops + 1
    /\ dirs' = dirs \cup Ancestors(source) \cup {Append(source, S_csync)}
    /\ queue' = <<[dir |-> source, parent_id |-> parent_id]>>
    /\ calls' = <<>>
    /\ pc' = "push"
    /\ dry_run' = dry
    /\ result' = [NoResult EXCEPT !.op = "push", !.source = parent_id,
                                  !.repeat = /\ since.pulled
                                             /\ source \in DOMAIN meta
                                             /\ meta[source].id = since.source]
    /\ since' = NoSince
    /\ UNCHANGED <<remote, meta, content, files, id_map_file, plan_file, id_map, plan>>

PushSources == {BaseDir} \cup {p \in DOMAIN meta : Parent(p) = BaseDir}

Push ==
    \E source \in PushSources, parent_id \in {Id1}, dry \in BOOLEAN :
        StartPush(source, parent_id, dry)

\* one call of push_page_tree: push_page, then the children are queued
PushStep ==
    /\ pc = "push"
    /\ queue # <<>>
    /\ LET item == Head(queue) IN
       IF item.dir \notin DOMAIN meta \/ meta[item.dir].corrupt
       THEN \* assert "title" in metadata fails on None, json.load on a corrupt file
            /\ queue' = <<>>
            /\ pc' = "idle"
            /\ result' = [result EXCEPT !.raised = TRUE]
            /\ UNCHANGED <<remote, calls>>
       ELSE \E ok \in BOOLEAN : \E order \in Orders(ChildDirs(item.dir)) :
            \E uploaded \in SUBSET AttachCalls(EmptyId, item.dir, dry_run) :
            LET r == push_page(item.dir, item.parent_id, dry_run, ok, uploaded)
            IN /\ remote' = r.remote
               /\ calls' = calls \o r.calls
               /\ queue' = IF r.raised THEN <<>>
                           ELSE [i \in 1..Len(order) |->
                                    [dir |-> order[i],
                                     parent_id |-> ChildParentId(r.id, item.parent_id)]]
                                \o Tail(queue)
               /\ pc' = IF r.raised THEN "idle" ELSE pc
               /\ result' = [result EXCEPT !.raised = r.raised]
    /\ UNCHANGED <<dirs, meta, content, files, id_map_file, plan_file, id_map, plan,
                   dry_run, ops, since>>

PushDone ==
    /\ pc = "push"
    /\ queue = <<>>
    /\ pc' = "idle"
    /\ UNCHANGED <<remote, dirs, meta, content, files, id_map_file, plan_file, id_map,
                   plan, dry_run, result, queue, calls, ops, since>>

\* a local tree the user has written and not pushed yet: N with child M, M with child K
FreshTree ==
    LET n == Append(BaseDir, T_N)
        m == n \o <<S_children, T_M>>
        k == m \o <<S_children, T_K>>
    IN [dirs |-> Ancestors(k) \cup {AttachmentsDir(m)},
        meta |-> (n :> [id |-> NoId, title |-> T_N, version |-> NoVersion, corrupt |-> FALSE]) @@
                 (m :> [id |-> NoId, title |-> T_M, version |-> NoVersion, corrupt |-> FALSE]) @@
                 (k :> [id |-> NoId, title |-> T_K, version |-> NoVersion, corrupt |-> FALSE]),
        content |-> (n :> "x") @@ (m :> "x"),
        files |-> (m :> {"f"})]

InitPush ==
    /\ remote = InitRemote
    /\ dirs = FreshTree.dirs
    /\ meta = FreshTree.meta
    /\ content = FreshTree.content
    /\ files = FreshTree.files
    /\ id_map_file = [exists |-> FALSE, corrupt |-> FALSE, map |-> EmptyMap]
    /\ plan_file = [exists |-> FALSE, plan |-> EmptyPlan]
    /\ id_map = EmptyMap
    /\ plan = EmptyPlan
    /\ pc = "idle"
    /\ dry_run = FALSE
    /\ result = NoResult
    /\ queue = <<>>
    /\ calls = <<>>
    /\ ops = 0
    /\ since = NoSince

\* the mirror is pulled before anything is pushed
PullFirst == ops = 0 /\ Pull

\* pulls, then pushes, with the remote's users idle: the plan of such a pull
\* has no rename and no update
NextPush ==
    \/ PullFirst
    \/ ExecCreate
    \/ PullDone
    \/ Push
    \/ PushStep
    \/ PushDone

PushSpec == InitPush /\ [][NextPush]_vars

----------------------------------------------------------------------------
(* The earlier engine, src/src/sync/engine.py *)

\* SyncEngine._pull_attachments: the directory is made with each attachment
legacy_pull_attachments(fs, page_dir, att) ==
    IF att = {} THEN fs ELSE pull_attachments(fs, page_dir, att)

RECURSIVE _pull_page_tree(_, _, _)
RECURSIVE _pull_children(_, _, _)

\* SyncEngine._pull_page_tree with dry_run unset and recurse set: a page whose
\* directory holds the remote version is passed over, any other is written;
\* the children are pulled either way
_pull_page_tree(fs, page_id, parent_dir) ==
    LET title == remote[page_id].title
        page_dir == IF parent_dir = None THEN get_page_dir(title)
                    ELSE get_child_dir(parent_dir, title)
        same == /\ page_dir \in DOMAIN fs.meta
                /\ fs.meta[page_dir].version = remote[page_id].version
        md == [id |-> page_id, title |-> title, version |-> remote[page_id].version,
               corrupt |-> FALSE]
        written == IF same THEN fs
                   ELSE legacy_pull_attachments(
                            save_page_metadata(
                                save_page_content(fs, page_dir, remote[page_id].body),
                                page_dir, md),
                            page_dir, remote[page_id].att)
    IN _pull_children(written, AllChildren(page_id), page_dir)

\* SyncEngine._pull_children: the loop over client.get_page_children
_pull_children(fs, children, parent_dir) ==
    IF children = <<>> THEN fs
    ELSE _pull_children(_pull_page_tree(fs, Head(children), parent_dir),
                        Tail(children), parent_dir)

\* json.load raises on a metadata.json that cannot be parsed
MetadataReadable == \A p \in DOMAIN meta : ~meta[p].corrupt

\* SyncEngine.pull of a page URL
LegacyPull ==
    /\ pc = "idle"
    /\ MetadataReadable
    /\ \E source \in PullSources :
        LET fs == _pull_page_tree([Disk EXCEPT !.dirs = @ \cup StorageInitDirs], source, None)
        IN /\ dirs' = fs.dirs
           /\ meta' = fs.meta
           /\ content' = fs.content
           /\ files' = fs.files
           /\ result' = [NoResult EXCEPT !.op = "legacy_pull", !.source = source]
    /\ dry_run' = FALSE
    /\ since' = NoSince
    /\ calls' = <<>>
    /\ UNCHANGED <<remote, id_map_file, plan_file, id_map, plan, pc, queue, ops>>

\* one call the push sends to the remote, as the log keeps it
LegacyCall(kind, local_dir, parent_id, title, returned, created) ==
    [call |-> kind, dir |-> local_dir, parent_id |-> parent_id, title |-> title,
     body |-> content[local_dir], returned |-> returned, created |-> created,
     attached |-> {}]

\* ConfluenceClient.create_page: the remote refuses a title the space already
\* has and a parent it does not have
create_page(r, title, body, parent_id) ==
    IF \/ \E i \in DOMAIN r : r[i].title = title
       \/ parent_id \notin DOMAIN r
       \/ DOMAIN r = Ids
    THEN [remote |-> r, raised |-> TRUE, id |-> EmptyId]
    ELSE LET new == IdOrder[CHOOSE k \in 1..Len(IdOrder) :
                               /\ IdOrder[k] \notin DOMAIN r
                               /\ \A j \in 1..(k - 1) : IdOrder[j] \in DOMAIN r]
         IN [remote |-> (new :> [title |-> title, version |-> 1, body |-> body,
                                 parent |-> parent_id, att |-> {}]) @@ r,
             raised |-> FALSE, id |-> new]

\* ConfluenceClient.update_page: version is the version the update starts
\* from, ok is whether the remote accepts the request; the remote refuses a
\* version that is not the one the page has and a title another page of the
\* space has
update_page(r, page_id, title, body, version, ok) ==
    IF \/ ~ok
       \/ version # r[page_id].version
       \/ \E i \in DOMAIN r : i # page_id /\ r[i].title = title
    THEN [remote |-> r, raised |-> TRUE]
    ELSE [remote |-> [r EXCEPT ![page_id].title = title, ![page_id].body = body,
                               ![page_id].version = @ + 1],
          raised |-> FALSE]

\* SyncEngine._push_attachments with dry_run unset
_push_attachments(r, page_id, local_dir) ==
    IF AttachmentsDir(local_dir) \notin dirs \/ local_dir \notin DOMAIN files
    THEN r
    ELSE [r EXCEPT ![page_id].att = @ \cup files[local_dir]]

RECURSIVE _push_directory(_, _, _, _)
RECURSIVE PushEach(_, _, _, _)

\* the loop of _push_children over the child directories in one order: the
\* outcomes, each the state reached and whether an exception left the loop
PushEach(st, order, page_id, dry) ==
    IF order = <<>> THEN {[st |-> st, raised |-> FALSE]}
    ELSE UNION {IF o.raised THEN {[st |-> o.st, raised |-> TRUE]}
                ELSE PushEach(o.st, Tail(order), page_id, dry) :
                o \in _push_directory(st, Head(order), page_id, dry)}

\* SyncEngine._push_children: iterdir lists the child directories in any order
_push_children(st, local_dir, page_id, dry) ==
    UNION {PushEach(st, order, page_id, dry) : order \in Orders(ChildDirs(local_dir))}

\* "if self.recurse: self._push_children(...)" followed by "return page_id"
ThenChildren(st, local_dir, page_id, dry) ==
    {[st |-> c.st, id |-> page_id, raised |-> c.raised] :
        c \in _push_children(st, local_dir, page_id, dry)}

\* _push_directory from "if not page_id:" on: the page is created, the
\* metadata takes its id and version, the children follow; an exception of
\* create_page or of a child leaves _push_directory
CreateBranch(st, local_dir, parent_id, dry) ==
    IF dry THEN {[st |-> st, id |-> NoId, raised |-> FALSE]}
    ELSE LET title == st.meta[local_dir].title
             c == create_page(st.remote, title, content[local_dir], parent_id)
             call == LegacyCall("create_page", local_dir, parent_id, title, c.id, ~c.raised)
         IN IF c.raised
            THEN {[st |-> [st EXCEPT !.calls = Append(@, call)], id |-> NoId, raised |-> TRUE]}
            ELSE ThenChildren([remote |-> _push_attachments(c.remote, c.id, local_dir),
                               meta |-> [st.meta EXCEPT ![local_dir].id = c.id,
                                                        ![local_dir].version = 1],
                               calls |-> Append(st.calls, call)],
                              local_dir, c.id, dry)

\* the try block of _push_directory for a page whose metadata has an id: the
\* outcomes, where raised is an exception raised anywhere in the block, the
\* push of the children included
TryBlock(st, local_dir, parent_id, dry) ==
    LET md == st.meta[local_dir]
        page_id == md.id
        got == [st EXCEPT !.calls = Append(@,
                   LegacyCall("get_page", local_dir, parent_id, md.title,
                              IF page_id \in DOMAIN st.remote THEN page_id ELSE EmptyId,
                              FALSE))]
    IN IF page_id \notin DOMAIN st.remote
       THEN {[st |-> got, id |-> NoId, raised |-> TRUE]}
       ELSE IF (md.version = st.remote[page_id].version /\ ~dry) \/ dry
       THEN ThenChildren(got, local_dir, page_id, dry)
       ELSE UNION {
            LET remote_version == st.remote[page_id].version
                u == update_page(st.remote, page_id, md.title, content[local_dir],
                                 remote_version, ok)
                call == LegacyCall("update_page", local_dir, parent_id, md.title,
                                   IF u.raised THEN EmptyId ELSE page_id, FALSE)
            IN IF u.raised
               THEN {[st |-> [got EXCEPT !.calls = Append(@, call)],
                      id |-> NoId, raised |-> TRUE]}
               ELSE ThenChildren(
                        [remote |-> _push_attachments(u.remote, page_id, local_dir),
                         meta |-> [st.meta EXCEPT ![local_dir].version =
                                                      u.remote[page_id].version],
                         calls |-> Append(got.calls, call)],
                        local_dir, page_id, dry) : ok \in BOOLEAN}

\* SyncEngine._push_directory: a directory without metadata or without content
\* is passed over with its children; "except Exception" sends every exception
\* of the try block to the creation of a new page
_push_directory(st, local_dir, parent_id, dry) ==
    IF \/ local_dir \notin DOMAIN st.meta
       \/ local_dir \notin DOMAIN content
       \/ content[local_dir] = ""
    THEN {[st |-> st, id |-> NoId, raised |-> FALSE]}
    ELSE IF st.meta[local_dir].id \in {NoId, EmptyId}
    THEN CreateBranch(st, local_dir, parent_id, dry)
    ELSE UNION {IF o.raised THEN CreateBranch(o.st, local_dir, parent_id, dry) ELSE {o} :
                o \in TryBlock(st, local_dir, parent_id, dry)}

\* SyncEngine._push_to_page: a source directory that is a page is pushed, one
\* that is not has each of its directories but .csync pushed
_push_to_page(st, local_dir, parent_id, dry) ==
    IF parent_id \notin DOMAIN st.remote
    THEN {[st |-> st, raised |-> TRUE]}
    ELSE IF local_dir \in DOMAIN st.meta
    THEN {[st |-> o.st, raised |-> o.raised] :
             o \in _push_directory(st, local_dir, parent_id, dry)}
    ELSE LET items == {d \in dirs : Parent(d) = local_dir /\ Name(d) # S_csync}
         IN UNION {PushEach(st, order, parent_id, dry) : order \in Orders(items)}

\* SyncEngine.push to a page URL
LegacyPush ==
    /\ pc = "idle"
    /\ ops < MaxRemoteOps
    /\ MetadataReadable
    /\ \E source \in PushSources, parent_id \in {Id1}, dry \in BOOLEAN :
       \E o \in _push_to_page([remote |-> remote, meta |-> meta, calls |-> <<>>],
                              source, parent_id, dry) :
          /\ remote' = o.st.remote
          /\ meta' = o.st.meta
          /\ calls' = o.st.calls
          /\ dry_run' = dry
          /\ dirs' = dirs \cup Ancestors(source) \cup {Append(source, S_csync)}
          /\ result' = [NoResult EXCEPT !.op = "legacy_push", !.source = parent_id,
                                        !.raised = o.raised]
    /\ ops' = ops + 1
    /\ since' = NoSince
    /\ UNCHANGED <<content, files, id_map_file, plan_file, id_map, plan, pc, queue>>

NextLegacy ==
    \/ LegacyPull
    \/ RemoteRename
    \/ RemoteEdit
    \/ LegacyPush

LegacySpec == Init /\ [][NextLegacy]_vars

----------------------------------------------------------------------------
(* Properties *)

Mirror == <<dirs, meta, content, files>>

SeqSet(q) == {q[i] : i \in 1..Len(q)}

\* the step appends an entry to result.applied: a call of _execute_sync_plan
AppliesEntry == pc = "pull" /\ Len(result'.applied) = Len(result.applied) + 1

LastApplied == result'.applied[Len(result'.applied)]

\* C1: a pull run right after a completed pull of the same source, with no
\* remote change in between, classifies every page as unchanged (to_create,
\* to_update and to_rename are empty) and leaves the local mirror as it was.
C1_SecondPullUnchanged ==
    [][result'.repeat =>
          /\ result'.buckets.to_create = <<>>
          /\ result'.buckets.to_update = <<>>
          /\ result'.buckets.to_rename = <<>>
          /\ ~result'.raised
          /\ (result.repeat /\ pc = "pull") => Mirror' = Mirror]_vars

\* C2: when the plan renames page P and creates P's child C, the rename of P
\* is applied before C is created and C's directory lies under the directory
\* P was renamed to.
C2_ChildCreatedUnderRenamedParent ==
    \A j \in 1..Len(result.applied) :
        LET c == result.applied[j] IN
        (c.op = "create" /\ remote[c.id].parent \in SeqSet(result.buckets.to_rename))
        => \E i \in 1..(j - 1) :
              /\ result.applied[i].op = "rename"
              /\ result.applied[i].id = remote[c.id].parent
              /\ IsPrefix(result.applied[i].dir, c.dir)

\* C3: a pull that finds the title of a bound page changed renames the page's
\* directory, where it is, to the new title; the id map entry of the page is
\* the new path; and every page bound below the old path is bound below the
\* new path and resolves there.
C3_RenameKeepsBindings ==
    [][(AppliesEntry /\ LastApplied.op = "rename" /\ LastApplied.bound # None
        /\ ~LastApplied.collided)
       => LET e == LastApplied IN
          /\ ~e.raised
          /\ e.dir = Append(Parent(e.bound), sanitize_filename(e.title))
          /\ e.dir \in dirs'
          /\ e.id \in DOMAIN id_map' /\ id_map'[e.id] = e.dir
          /\ id_map_file'.exists /\ id_map_file'.map[e.id] = e.dir
          /\ \A p \in DOMAIN meta :
                (IsPrefix(e.bound, p) /\ p # e.bound) =>
                    /\ Rebase(p, e.bound, e.dir) \in DOMAIN meta'
                    /\ meta'[Rebase(p, e.bound, e.dir)] = meta[p]
                    /\ \A scanned \in ScanResults(meta', meta[p].id) :
                          LET d == get_page_dir_by_id(dirs', id_map', meta[p].id, scanned).dir
                          IN d # None /\ IsPrefix(e.dir, d)]_vars

\* what the disk holds at and below directory p
Subtree(fs, p) ==
    [dirs |-> {q \in fs.dirs : IsPrefix(p, q)},
     meta |-> [q \in {x \in DOMAIN fs.meta : IsPrefix(p, x)} |-> fs.meta[q]],
     content |-> [q \in {x \in DOMAIN fs.content : IsPrefix(p, x)} |-> fs.content[q]],
     files |-> [q \in {x \in DOMAIN fs.files : IsPrefix(p, x)} |-> fs.files[q]]]

\* C4: a rename whose new directory name is taken by another directory gives
\* the page a directory whose name is the new name with the suffix _<id>, and
\* leaves the directory that has the name as it was.
C4_CollisionSuffix ==
    [][(AppliesEntry /\ LastApplied.op = "rename" /\ LastApplied.collided)
       => LET e == LastApplied IN
          /\ ~e.raised
          /\ e.dir \in dirs'
          /\ Name(e.dir) = sanitize_filename(e.title) \o <<"_">> \o e.id
          /\ e.dir \in DOMAIN meta' /\ meta'[e.dir].id = e.id
          /\ Subtree(Disk', e.wanted) = Subtree(Disk, e.wanted)]_vars

\* C5: a pull with dry_run set leaves the local disk as it was, the control
\* directory, the id map file and the plan file included.
C5_DryRunPullWritesNothing == [][dry_run' => UNCHANGED local]_vars

\* C9: an update of the plan writes content, metadata and attachments at the
\* directory the page is bound to, and makes no other directory.
C9_UpdateAtBoundPath ==
    [][(AppliesEntry /\ LastApplied.op = "update")
       => LET e == LastApplied IN
          /\ e.dir = e.bound
          /\ dirs' \subseteq dirs \cup {AttachmentsDir(e.bound)}
          /\ meta'[e.bound].version = remote[e.id].version
          /\ content'[e.bound] = remote[e.id].body]_vars

\* C10: with the id map file deleted, the planner classifies the pages as it
\* does with the file intact, whatever the metadata scan returns.
C10_IndexLossSameClasses ==
    (pc = "idle" /\ id_map_file.exists) =>
        \A source \in PullSources : \A scan \in ScanChoices(_build_page_tree(source)) :
            BucketIds(_create_sync_plan(source, EmptyMap, scan).plan)
                = BucketIds(_create_sync_plan(source, id_map_file.map, scan).plan)

\* C6: while a push runs with dry_run set, no remote write is sent: no page is
\* created or updated and no attachment is uploaded.
C6_DryRunPushWritesNothing ==
    [][(pc = "push" /\ dry_run) => remote' = remote]_vars

\* C7: a push of the mirror a pull has just written, with neither side changed
\* in between, creates no remote page and raises no remote version.
C7_RoundTripNoChange ==
    [][(pc = "push" /\ result.repeat /\ ~dry_run) =>
          /\ DOMAIN remote' = DOMAIN remote
          /\ \A i \in DOMAIN remote : remote'[i].version = remote[i].version]_vars

\* C8: the first remote call of a push is for the root directory and carries
\* the parent id the push was given; the call for every other directory
\* carries the id that the call for its parent directory returned.
C8_ChildrenCarryParentId ==
    \A k \in 1..Len(calls) :
        IF k = 1
        THEN calls[k].parent_id = result.source
        ELSE \E j \in 1..(k - 1) :
                /\ calls[j].dir = Parent(Parent(calls[k].dir))
                /\ calls[k].parent_id = calls[j].returned

\* a fresh three-level tree has been pushed and every page of it was created
C8_Witness ==
    /\ pc = "idle"
    /\ result.op = "push"
    /\ Len(calls) = 3
    /\ \A k \in 1..3 : calls[k].created
    /\ calls[1].parent_id = Id1
    /\ calls[3].title = T_K
    /\ remote[calls[3].returned].parent = calls[2].returned
    /\ remote[calls[2].returned].parent = calls[1].returned

\* C11: in the calls a pull makes to apply its plan, no rename comes after a
\* create or an update, and no create comes after an update.
OpRank(op) == IF op = "rename" THEN 1 ELSE IF op = "create" THEN 2 ELSE 3

AppliedBefore(j, op) == {result.applied[i].id : i \in {k \in 1..(j - 1) : result.applied[k].op = op}}

C11_RenamesCreatesUpdates ==
    result.op = "pull" =>
        \A j \in 1..Len(result.applied) :
            /\ \A i \in 1..(j - 1) : OpRank(result.applied[i].op) <= OpRank(result.applied[j].op)
            /\ OpRank(result.applied[j].op) > 1 =>
                   SeqSet(result.buckets.to_rename) = AppliedBefore(j, "rename")
            /\ OpRank(result.applied[j].op) > 2 =>
                   SeqSet(result.buckets.to_create) = AppliedBefore(j, "create")

\* a pull has applied a rename, a create and an update
C11_Witness ==
    /\ result.op = "pull"
    /\ pc = "idle"
    /\ {result.applied[i].op : i \in 1..Len(result.applied)} = {"rename", "create", "update"}

\* C12: the plan a pull computes holds every page of the fetched tree in
\* exactly one bucket, once.
C12_ExactlyOneBucket ==
    [][(pc = "idle" /\ pc' = "pull")
       => LET b == result'.buckets
              all == b.to_create \o b.to_update \o b.to_rename \o b.unchanged
          IN /\ \A i, j \in 1..Len(all) : all[i] = all[j] => i = j
             /\ SeqSet(all) = _build_page_tree(result'.source)]_vars

\* a plan with a rename, a create and an update is about to be applied
C12_Witness ==
    /\ pc = "pull"
    /\ result.applied = <<>>
    /\ result.stats.to_rename > 0
    /\ result.stats.to_create > 0
    /\ result.stats.to_update > 0

\* C13: when a pull has ended, the id map, in memory and in id_map.json, binds
\* every page the pull created to the directory it was written to.
C13_CreateRegistersId ==
    (pc = "idle" /\ result.op = "pull" /\ ~result.raised) =>
        \A i \in 1..Len(result.applied) :
            LET e == result.applied[i] IN
            e.op = "create" =>
                /\ e.id \in DOMAIN id_map
                /\ id_map[e.id] = e.dir
                /\ id_map_file.exists
                /\ e.id \in DOMAIN id_map_file.map
                /\ id_map_file.map[e.id] = e.dir

\* C14: when applying one entry of the plan fails, the pull does not raise: it
\* goes on with the entries that remain.
C14_FailureSkipsOneEntry ==
    [][(AppliesEntry /\ LastApplied.raised)
       => /\ pc' = "pull"
          /\ ~result'.raised
          /\ plan'.to_create = plan.to_create
          /\ plan'.to_update = plan.to_update]_vars

\* C15: a step of a push that sent a remote call for one directory leaves the
\* push running, with the directories that were waiting still to be pushed.
IsSuffix(q, r) == Len(q) <= Len(r) /\ SubSeq(r, Len(r) - Len(q) + 1, Len(r)) = q

C15_PushFailureSkipsNode ==
    [][(pc = "push" /\ calls' # calls)
       => /\ pc' = "push"
          /\ ~result'.raised
          /\ IsSuffix(Tail(queue), queue')]_vars

\* C16: a pull over a mirror whose id_map.json is not valid JSON does not
\* raise: it plans as it does with an empty id map.
C16_CorruptIndexIsEmpty ==
    [][((Pull \/ PullRaises) /\ id_map_file.exists /\ id_map_file.corrupt)
       => /\ ~result'.raised
          /\ \E scan \in ScanChoices(_build_page_tree(result'.source)) :
                result'.buckets =
                    BucketIds(_create_sync_plan(result'.source, EmptyMap, scan).plan)]_vars

\* C17: a pull never raises over absent or corrupt metadata: a page resolved
\* to a directory whose metadata.json is absent or not valid JSON is planned
\* as a create.
Unreadable(p) == p \notin DOMAIN meta \/ meta[p].corrupt

C17_BrokenMetadataIsCreate ==
    [][((Pull \/ PullRaises) /\ ~(id_map_file.exists /\ id_map_file.corrupt))
       => /\ ~result'.raised
          /\ \A i \in _build_page_tree(result'.source) :
                (i \in DOMAIN id_map' /\ id_map'[i] \in dirs /\ Unreadable(id_map'[i]))
                    => i \in SeqSet(result'.buckets.to_create)]_vars

\* C18: when a pull has written a page to a directory, the attachment files of
\* that directory are exactly the attachments the page has on the remote.
C18_AttachmentsAreSnapshot ==
    [][(AppliesEntry /\ LastApplied.op \in {"create", "update"})
       => files'[LastApplied.dir] = remote[LastApplied.id].att]_vars

\* C19: a pull with recurse disabled plans and applies nothing but the page
\* named by the source.
C19_NoRecurseOnlyRoot ==
    (result.op = "pull" /\ ~result.recurse) =>
        LET b == result.buckets IN
        /\ SeqSet(b.to_create \o b.to_update \o b.to_rename \o b.unchanged) \subseteq {result.source}
        /\ \A i \in 1..Len(result.applied) : result.applied[i].id = result.source

\* C20: the plan of a pull holds every descendant the source page has on the
\* remote.
RECURSIVE Descendants(_)
Descendants(page_id) ==
    {page_id} \cup
    UNION {Descendants(c) : c \in {i \in DOMAIN remote : remote[i].parent = page_id}}

C20_TreeHoldsEveryDescendant ==
    [][(pc = "idle" /\ pc' = "pull")
       => LET b == result'.buckets IN
          Descendants(result'.source) \subseteq
              SeqSet(b.to_create \o b.to_update \o b.to_rename \o b.unchanged)]_vars

PlanIds(b) == SeqSet(b.to_create \o b.to_update \o b.to_rename \o b.unchanged)

\* C21: in the plan of a pull, the children the remote lists for a page of
\* the plan are in the plan too, whatever the bucket of the page.
C21_ChildrenAlwaysVisited ==
    [][(pc = "idle" /\ pc' = "pull")
       => \A i \in PlanIds(result'.buckets) :
             \A k \in 1..Len(Children(i)) : Children(i)[k] \in PlanIds(result'.buckets)]_vars

\* a plan where a page is unchanged and a child of it is not
C21_Witness ==
    /\ pc = "pull"
    /\ result.applied = <<>>
    /\ \E i \in SeqSet(result.buckets.to_update) \cup SeqSet(result.buckets.to_rename)
                \cup SeqSet(result.buckets.to_create) :
          remote[i].parent \in SeqSet(result.buckets.unchanged)

\* C22: when a push creates the remote page of a local page that had no id,
\* the metadata of the local page afterwards holds the id the remote returned
\* and the version of the created page.
C22_CreateBindsNode ==
    [][(pc = "push" /\ Len(calls') = Len(calls) + 1 /\ calls'[Len(calls')].created)
       => LET c == calls'[Len(calls')]
          IN /\ c.parent_id = Head(queue).parent_id
             /\ meta'[c.dir].id = c.returned
             /\ meta'[c.dir].version = remote'[c.returned].version]_vars

\* the calls of the log that a push sent for a directory
CallsFor(log, d) == {k \in 1..Len(log) : log[k].dir = d}

\* the directories _push_directory does not pass over
Pushable(d) == d \in DOMAIN meta /\ d \in DOMAIN content /\ content[d] # ""

\* C23: in a push of the earlier engine, a directory that is bound to a remote
\* page and records the version the remote has gets no update_page and no
\* create_page call, and each of its child directories is pushed.
C23_UpToDateNodeIsSkipped ==
    [][LegacyPush
       => \A d \in DOMAIN meta :
             (/\ Pushable(d)
              /\ CallsFor(calls', d) # {}
              /\ meta[d].id \in DOMAIN remote
              /\ meta[d].version = remote[meta[d].id].version)
             => /\ \A k \in CallsFor(calls', d) : calls'[k].call = "get_page"
                /\ \A c \in ChildDirs(d) : Pushable(c) => CallsFor(calls', c) # {}]_vars

\* C24: in a push of the earlier engine, when update_page fails for a bound
\* directory, the next call creates the page under the parent the directory
\* was pushed under, the push ends without an error, and each child directory
\* is afterwards pushed under the created page.
C24_FailedUpdateBecomesCreate ==
    [][LegacyPush
       => \A k \in 1..Len(calls') :
             (calls'[k].call = "update_page" /\ calls'[k].returned = EmptyId)
             => /\ ~result'.raised
                /\ k < Len(calls')
                /\ calls'[k + 1].call = "create_page"
                /\ calls'[k + 1].dir = calls'[k].dir
                /\ calls'[k + 1].parent_id = calls'[k].parent_id
                /\ calls'[k + 1].created
                /\ \A c \in ChildDirs(calls'[k].dir) :
                      Pushable(c)
                      => \E j \in CallsFor(calls', c) :
                            j > k + 1 /\ calls'[j].parent_id = calls'[k + 1].returned]_vars

\* the content file of the directory is absent or empty
NoContent(d) == d \notin DOMAIN content \/ content[d] = ""

\* C25: push_page of a directory that has metadata and no content sends the
\* remote call for that directory, with the placeholder as its body.
C25_PlaceholderBody ==
    [][(/\ pc = "push"
        /\ queue # <<>>
        /\ Head(queue).dir \in DOMAIN meta
        /\ ~meta[Head(queue).dir].corrupt
        /\ NoContent(Head(queue).dir))
       => /\ Len(calls') = Len(calls) + 1
          /\ calls'[Len(calls')].dir = Head(queue).dir
          /\ calls'[Len(calls')].title = meta[Head(queue).dir].title
          /\ calls'[Len(calls')].body = Placeholder]_vars

\* a finished push that sent the placeholder for a directory whose content
\* file is empty, after a push that created a page with the placeholder as its
\* body for a directory without a content file
C25_Witness ==
    /\ pc = "idle"
    /\ result.op = "push"
    /\ ~result.raised
    /\ \E k \in 1..Len(calls) :
          /\ calls[k].dir \in DOMAIN content
          /\ content[calls[k].dir] = ""
          /\ calls[k].body = Placeholder
    /\ \E d \in DOMAIN meta \ DOMAIN content : \E i \in DOMAIN remote :
          /\ remote[i].title = meta[d].title
          /\ remote[i].body = Placeholder

\* C26: the id map of the storage object and id_map.json hold the same
\* entries in every state (no entry waits in memory for a later write), and
\* update_id_map sets the entry of its id and keeps every other.
C26_IdMapFileIsIdMap ==
    /\ id_map = LocalStorageInit
    /\ id_map # EmptyMap => id_map_file.exists
    /\ \A i \in Ids : \A path \in dirs :
          LET m == update_id_map(id_map, i, path)
          IN /\ DOMAIN m = DOMAIN id_map \cup {i}
             /\ m[i] = path
             /\ \A j \in DOMAIN id_map \ {i} : m[j] = id_map[j]

\* update_id_map has been called by the scan for one page and by the rename
\* of another
C26_Witness ==
    /\ id_map_file.exists
    /\ result.op = "pull"
    /\ \E k \in 1..Len(result.applied) :
          /\ result.applied[k].op = "rename"
          /\ result.applied[k].id \in DOMAIN id_map
          /\ id_map[result.applied[k].id] = result.applied[k].dir
          /\ \E j \in DOMAIN id_map : j # result.applied[k].id

\* C27: when the download of the attachments of a page fails during a pull,
\* the pull goes on: the content and the metadata of the page are on disk, no
\* error is recorded, and the entries after it stay in the plan to be applied.
C27_DownloadFailureIsSkipped ==
    [][(ExecCreateDownloadFails \/ ExecUpdateDownloadFails)
       => LET e == result'.applied[Len(result'.applied)]
          IN /\ e.op \in {"create", "update"}
             /\ e.dir \in DOMAIN content' /\ content'[e.dir] = remote[e.id].body
             /\ e.dir \in DOMAIN meta' /\ meta'[e.dir].id = e.id
             /\ meta'[e.dir].version = remote[e.id].version
             /\ AttachmentsDir(e.dir) \in dirs'
             /\ pc' = "pull"
             /\ ~result'.raised
             /\ plan'.to_create = IF e.op = "create" THEN Tail(plan.to_create)
                                  ELSE plan.to_create
             /\ plan'.to_update = IF e.op = "update" THEN Tail(plan.to_update)
                                  ELSE plan.to_update]_vars

\* a pull that ended without an error and applied further entries after a
\* page of which an attachment is missing on disk
C27_Witness ==
    /\ pc = "idle"
    /\ result.op = "pull"
    /\ ~result.raised
    /\ \E k \in 1..Len(result.applied) :
          LET e == result.applied[k]
          IN /\ k < Len(result.applied)
             /\ e.op = "create"
             /\ e.id \in DOMAIN remote
             /\ e.dir \in DOMAIN files
             /\ remote[e.id].att \ files[e.dir] # {}
             /\ content[e.dir] = remote[e.id].body
             /\ meta[e.dir].id = e.id
             /\ meta[result.applied[k + 1].dir].id = result.applied[k + 1].id

\* the statistics a pull without dry_run computes in the current state, one
\* for each order in which the scan can list the metadata files
PullStats(source) ==
    {_create_sync_plan(source, LocalStorageInit, scan).plan.stats :
        scan \in {c \in ScanChoices(_build_page_tree(source)) :
                     ~_create_sync_plan(source, LocalStorageInit, c).raised}}

\* C28: the statistics a pull with dry_run returns are statistics that a pull
\* without dry_run computes from the same remote tree and local state.
C28_DryRunSameStatistics ==
    [][(DryPull /\ ~result'.raised) => result'.stats \in PullStats(result'.source)]_vars

\* a dry run that returned statistics with a rename, an update and an
\* unchanged page
C28_Witness ==
    /\ pc = "idle"
    /\ dry_run
    /\ result.op = "pull"
    /\ ~result.raised
    /\ result.stats.to_rename > 0
    /\ result.stats.to_update > 0
    /\ result.stats.unchanged > 0

\* the directories under the base directory whose metadata.json can be read
\* and holds the id
Carrying(i) ==
    {p \in DOMAIN meta : IsPrefix(BaseDir, p) /\ ~meta[p].corrupt /\ meta[p].id = i}

\* C29: get_page_dir_by_id returns the path the id map has for the id when
\* that path is a directory on disk; otherwise it returns a directory whose
\* metadata holds the id and writes it into the id map, or, when no metadata
\* holds the id, returns None and leaves the id map as it is.
C29_LookupThenScan ==
    \A i \in Ids : \A scanned \in ScanResults(meta, i) :
        LET r == get_page_dir_by_id(dirs, id_map, i, scanned)
        IN IF i \in DOMAIN id_map /\ id_map[i] \in dirs
           THEN r.dir = id_map[i] /\ r.map = id_map /\ ~r.wrote
           ELSE IF Carrying(i) # {}
           THEN /\ r.dir \in Carrying(i)
                /\ r.wrote
                /\ DOMAIN r.map = DOMAIN id_map \cup {i}
                /\ r.map[i] = r.dir
                /\ \A j \in DOMAIN id_map \ {i} : r.map[j] = id_map[j]
           ELSE r.dir = None /\ r.map = id_map /\ ~r.wrote

\* the id map has an entry whose path is on disk, an entry whose path is gone
\* while a metadata record holds its id, and no entry for a page that has a
\* metadata record; another id has neither an entry nor a record
C29_Witness ==
    /\ \E i \in DOMAIN id_map : id_map[i] \in dirs
    /\ \E i \in DOMAIN id_map : id_map[i] \notin dirs /\ Carrying(i) # {}
    /\ \E i \in Ids \ DOMAIN id_map : Carrying(i) # {}
    /\ \E i \in Ids \ DOMAIN id_map : Carrying(i) = {}

\* the pull found nothing of the tree on disk: every page is to be created
AllCreated ==
    /\ result.op = "pull"
    /\ ~dry_run
    /\ result.buckets.to_create # <<>>
    /\ result.buckets.to_update = <<>>
    /\ result.buckets.to_rename = <<>>
    /\ result.buckets.unchanged = <<>>

\* C30: in a pull that creates every page of the tree, the root page is
\* created at base directory / sanitized title and every other page at the
\* directory its remote parent was created at / children / sanitized title.
C30_CreatedUnderParentPath ==
    AllCreated
    => \A k \in 1..Len(result.applied) :
          LET e == result.applied[k]
          IN /\ e.op = "create"
             /\ e.dir \in dirs
             /\ e.dir \in DOMAIN meta
             /\ IF e.id = result.source
                THEN e.dir = Append(BaseDir, sanitize_filename(e.title))
                ELSE \E j \in 1..(k - 1) :
                        /\ result.applied[j].id = remote[e.id].parent
                        /\ e.dir = result.applied[j].dir
                                   \o <<S_children, sanitize_filename(e.title)>>

\* a finished pull into an empty destination where the titles of the root and
\* of a child have characters that are replaced in the directory names
C30_Witness ==
    /\ AllCreated
    /\ pc = "idle"
    /\ Len(result.applied) = 3
    /\ \E j, k \in 1..Len(result.applied) :
          /\ result.applied[j].id = result.source
          /\ sanitize_filename(result.applied[j].title) # result.applied[j].title
          /\ result.applied[k].id # result.source
          /\ sanitize_filename(result.applied[k].title) # result.applied[k].title

\* C31: when a pull without dry_run returns without an error, every page of
\* the tree it fetched has a directory whose metadata holds the id, the title
\* and the version the remote has, and whose content is the remote body.
C31_PullMirrorsEveryNode ==
    [][(PullDone /\ ~result.raised)
       => \A i \in _build_page_tree(result.source) :
             \E d \in DOMAIN meta' :
                /\ ~meta'[d].corrupt
                /\ meta'[d].id = i
                /\ meta'[d].title = remote[i].title
                /\ meta'[d].version = remote[i].version
                /\ d \in DOMAIN content'
                /\ content'[d] = remote[i].body]_vars

\* C32: whenever no pull is running, no two directories have metadata that
\* holds the same page id.
C32_OneDirectoryPerId ==
    pc = "idle"
    => \A d1, d2 \in DOMAIN meta :
          (/\ ~meta[d1].corrupt /\ ~meta[d2].corrupt
           /\ meta[d1].id # NoId
           /\ meta[d1].id = meta[d2].id) => d1 = d2

\* C33: no call of a push is sent with an empty or absent parent id: the
\* children of a directory whose push_page returned no id are not pushed.
C33_NoPushUnderEmptyParent ==
    \A k \in 1..Len(calls) :
        /\ calls[k].parent_id # EmptyId
        /\ calls[k].parent_id # NoId

\* C34: the entries one pull applies for two different pages never write to
\* the same directory.
C34_SeparateDirectories ==
    result.op = "pull"
    => \A j, k \in 1..Len(result.applied) :
          (/\ result.applied[j].id # result.applied[k].id
           /\ result.applied[j].dir # None)
          => result.applied[j].dir # result.applied[k].dir

\* C35: a rename that handle_renamed_page applies moves the directory of the
\* page inside the directory that held it: only the last component changes.
C35_RenameKeepsContainer ==
    [][(AppliesEntry /\ LastApplied.op = "rename" /\ ~LastApplied.raised
        /\ LastApplied.bound # None)
       => Parent(LastApplied.dir) = Parent(LastApplied.bound)]_vars

\* C36: when the move of the directory fails in handle_renamed_page, the
\* metadata of the page is as it was before the call, with the old title, and
\* the id map has no new path for the page.
C36_FailedRenameChangesNothing ==
    [][(AppliesEntry /\ LastApplied.op = "rename" /\ LastApplied.raised
        /\ LastApplied.bound # None)
       => /\ meta' = meta
          /\ meta'[LastApplied.bound].title # LastApplied.title
          /\ \/ id_map' = id_map
             \/ id_map' = update_id_map(id_map, LastApplied.id, LastApplied.bound)]_vars

\* C37: the directory get_page_dir_by_id returns for an id, when it has a
\* metadata record, has the record of that id.
C37_LookupReturnsOwnDirectory ==
    \A i \in Ids : \A scanned \in ScanResults(meta, i) :
        LET r == get_page_dir_by_id(dirs, id_map, i, scanned)
        IN (r.dir # None /\ r.dir \in DOMAIN meta /\ ~meta[r.dir].corrupt)
           => meta[r.dir].id = i

\* C38: a push of the earlier engine leaves the body of a remote page as it
\* is when the directory bound to the page records a version lower than the
\* version the page has.
C38_StalePushIsRejected ==
    [][LegacyPush
       => \A d \in DOMAIN meta :
             (/\ meta[d].id \in DOMAIN remote
              /\ meta[d].version < remote[meta[d].id].version)
             => remote'[meta[d].id].body = remote[meta[d].id].body]_vars

\* each counter of a plan is the length of its bucket
CountersMatch(pl) ==
    /\ pl.stats.to_create = Len(pl.to_create)
    /\ pl.stats.to_update = Len(pl.to_update)
    /\ pl.stats.to_rename = Len(pl.to_rename)
    /\ pl.stats.unchanged = Len(pl.unchanged)

\* C39: in the plan a pull builds, with or without dry_run, each counter of
\* stats is the length of its bucket and the four counters add up to the
\* number of pages of the fetched tree.
C39_StatsCountBuckets ==
    [][((Pull \/ DryPull) /\ ~result'.raised)
       => /\ CountersMatch(plan_file'.plan)
          /\ result'.stats = plan_file'.plan.stats
          /\ result'.stats.to_create + result'.stats.to_update
             + result'.stats.to_rename + result'.stats.unchanged
             = Cardinality(_build_page_tree(result'.source))]_vars

\* the plan of a running pull counts one update, one rename and one
\* unchanged page
C39_Witness ==
    /\ pc = "pull"
    /\ plan_file.exists
    /\ plan_file.plan = plan
    /\ Len(plan.to_update) = 1 /\ plan.stats.to_update = 1
    /\ Len(plan.to_rename) = 1 /\ plan.stats.to_rename = 1
    /\ Len(plan.unchanged) = 1 /\ plan.stats.unchanged = 1
    /\ plan.stats.to_create = 0

====
